---- MODULE Spec2Model ----
(***************************************************************************)
(* The introspection decoder of src/lib.rs: the six serde visitors         *)
(* (DocumentVisitor, TypeDefinitionVisitor, FieldVisitor,                  *)
(* InputValueVisitor, EnumValueVisitor, TypeRefVisitor), each a loop over  *)
(* the keys of one JSON object followed by the construction of its result. *)
(*                                                                         *)
(* A JSON object is an ordered sequence of entries [k, v], so that a key   *)
(* may occur more than once; serde_json hands the entries to visit_map one *)
(* by one in source order.  Keys are plain (escape-free) strings.          *)
(***************************************************************************)
EXTENDS Naturals, Sequences, FiniteSets, TLC

VARIABLES level, pc, acc, seen, result

vars == <<level, pc, acc, seen, result>>

\* ------------------------------------------------------------------ bounds

\* Entries one visitor run consumes at most.
MaxKeys == 4

\* ------------------------------------------------------------ key constants

QUERY_TYPE_ALIAS == "queryType"
MUTATION_TYPE_ALIAS == "mutationType"
SUBSCRIPTION_TYPE_ALIAS == "subscriptionType"
TYPES_ALIAS == "types"
DIRECTIVES_ALIAS == "directives"
KIND_ALIAS == "kind"
NAME_ALIAS == "name"
DESCRIPTION_ALIAS == "description"
FIELDS_ALIAS == "fields"
INPUT_FIELDS_ALIAS == "inputFields"
INTERFACES_ALIAS == "interfaces"
ENUM_VALUES_ALIAS == "enumValues"
POSSIBLE_TYPES_ALIAS == "possibleTypes"
ARGS_ALIAS == "args"
TYPE_ALIAS == "type"
DEFAULT_VALUE_ALIAS == "defaultValue"
OF_TYPE_ALIAS == "ofType"
IS_DEPRECATED_ALIAS == "isDeprecated"
DEPRECATION_REASON_ALIAS == "deprecationReason"

\* A key no visitor has a match arm for.
UNKNOWN_KEY == "extensions"

\* -------------------------------------------------------------- JSON values

JNull == [t |-> "null"]
JNum == [t |-> "num"]
JBool == [t |-> "bool"]
JStr(s) == [t |-> "str", v |-> s]
JArr(a) == [t |-> "arr", v |-> a]
JObj(entries) == [t |-> "obj", v |-> entries]
Entry(k, v) == [k |-> k, v |-> v]

\* serde_json::Map::get: a later occurrence of a key replaced the earlier one.
MapGet(entries, k) ==
    LET idx == {i \in 1..Len(entries) : entries[i].k = k}
    IN  IF idx = {} THEN <<>>
        ELSE <<entries[CHOOSE i \in idx : \A j \in idx : j <= i].v>>

\* ------------------------------------------------------ Option and Result

None == <<>>
Some(x) == <<x>>
is_none(o) == Len(o) = 0
unwrap_or_else_vec(o) == IF is_none(o) THEN <<>> ELSE o[1]

Ok(x) == [ok |-> TRUE, val |-> x]
Err(e, k) == [ok |-> FALSE, err |-> e, key |-> k]

\* ------------------------------------------------ values of the result tree

NamedType(n) == [tag |-> "NamedType", val |-> n]
ListType(t) == [tag |-> "ListType", val |-> t]
NonNullType(t) == [tag |-> "NonNullType", val |-> t]

\* ------------------------------------------------- field-presence utilities

require_field(key, field) ==
    IF is_none(field) THEN Err("missing_field", key) ELSE Ok(field[1])

\* A variant of require_field_empty that takes an empty list for an absent one.
require_field_empty_nonempty(key, field) ==
    IF is_none(field) \/ field[1] = <<>> THEN Ok(<<>>)
    ELSE Err("unknown_field", key)

require_field_empty(key, field) ==
    IF is_none(field) THEN Ok(<<>>) ELSE Err("unknown_field", key)

\* A variant of handle_unexpected_key that denies unknown fields.
handle_unexpected_key_deny(key, value) == Err("unknown_field", key)

\* The value of an unexpected key is read as IgnoredAny, which accepts any JSON.
handle_unexpected_key(key, value) == Ok(<<>>)

\* ------------------------------------------- serde's decoders of plain types

\* A variant of DeString that refuses the empty string.
DeStringNonEmpty(value) ==
    IF value.t = "str" /\ value.v # "" THEN Ok(value.v)
    ELSE Err("invalid_type", "a string")

\* next_value::<String>()
DeString(value) ==
    IF value.t = "str" THEN Ok(value.v) ELSE Err("invalid_type", "a string")

\* next_value::<Option<String>>()
DeOptionString(value) ==
    CASE value.t = "null" -> Ok(None)
      [] value.t = "str" -> Ok(Some(value.v))
      [] OTHER -> Err("invalid_type", "a string")

\* next_value::<TypeKind>() of a JSON string (the derived unit-variant enum).
DeTypeKind(value) ==
    IF value.t # "str" THEN Err("invalid_type", "variant identifier")
    ELSE CASE value.v = "SCALAR" -> Ok("Scalar")
           [] value.v = "OBJECT" -> Ok("Object")
           [] value.v = "INTERFACE" -> Ok("Interface")
           [] value.v = "UNION" -> Ok("Union")
           [] value.v = "ENUM" -> Ok("Enum")
           [] value.v = "INPUT_OBJECT" -> Ok("InputObject")
           [] OTHER -> Err("unknown_variant", value.v)

\* `?` on a Result: go on with the value when r is Ok, else return r's error.
AndThen(r, F(_)) == IF r.ok THEN F(r.val) ELSE r
MapOk(r, F(_)) == IF r.ok THEN Ok(F(r.val)) ELSE r
Then(r, x) == IF r.ok THEN Ok(x) ELSE r

\* The first error of a sequence of checks made one after the other.
FirstErr(checks) ==
    LET bad == {i \in 1..Len(checks) : ~checks[i].ok}
    IN  IF bad = {} THEN Ok(<<>>)
        ELSE checks[CHOOSE i \in bad : \A j \in bad : i <= j]

\* ------------------------------------------------------- DeserializeWith<T>
\* D is the Deserialize impl of DeserializeWith<T>.

\* A variant of CollectVec that collects the elements last to first.
CollectVecReversed(rs) ==
    Then(FirstErr(rs), [i \in 1..Len(rs) |-> rs[Len(rs) + 1 - i].val])

\* Vec<DeserializeWith<T>>: the elements in order, the first error ends it.
CollectVec(rs) == Then(FirstErr(rs), [i \in 1..Len(rs) |-> rs[i].val])

DeVec(D(_), value) ==
    IF value.t # "arr" THEN Err("invalid_type", "a sequence")
    ELSE CollectVec([i \in 1..Len(value.v) |-> D(value.v[i])])

deserialize_value(D(_), value) ==
    IF value.t = "null" THEN Ok(None) ELSE MapOk(D(value), Some)

deserialize_array(D(_), value) ==
    IF value.t = "null" THEN Ok(None) ELSE MapOk(DeVec(D, value), Some)

\* ------------------------------------------------------------ TypeRefVisitor

RECURSIVE deserialize_type_ref(_)

TypeRefNew == [kind |-> None, name |-> None, of_type |-> None]

TypeRefKey(a, key, value) ==
    CASE key = KIND_ALIAS ->
           MapOk(DeString(value), LAMBDA x : [a EXCEPT !.kind = Some(x)])
      [] key = NAME_ALIAS ->
           MapOk(DeOptionString(value), LAMBDA x : [a EXCEPT !.name = x])
      [] key = OF_TYPE_ALIAS ->
           MapOk(deserialize_value(deserialize_type_ref, value),
                 LAMBDA x : [a EXCEPT !.of_type = x])
      [] OTHER -> Then(handle_unexpected_key(key, value), a)

\* A variant of TypeRefArm with the two wrappers exchanged.
TypeRefArmSwapped(a, kind) ==
    CASE kind = "LIST" ->
           MapOk(require_field(OF_TYPE_ALIAS, a.of_type), NonNullType)
      [] kind = "NON_NULL" ->
           MapOk(require_field(OF_TYPE_ALIAS, a.of_type), ListType)
      [] OTHER -> MapOk(require_field(NAME_ALIAS, a.name), NamedType)

TypeRefArm(a, kind) ==
    CASE kind = "LIST" -> MapOk(require_field(OF_TYPE_ALIAS, a.of_type), ListType)
      [] kind = "NON_NULL" ->
           MapOk(require_field(OF_TYPE_ALIAS, a.of_type), NonNullType)
      [] OTHER -> MapOk(require_field(NAME_ALIAS, a.name), NamedType)

TypeRefEnd(a) ==
    AndThen(require_field(KIND_ALIAS, a.kind), LAMBDA kind : TypeRefArm(a, kind))

\* The key loop of TypeRefVisitor over the entries of one object; an error
\* leaves it at once.
RECURSIVE TypeRefLoop(_, _)
TypeRefLoop(a, entries) ==
    IF entries = <<>> THEN Ok(a)
    ELSE AndThen(TypeRefKey(a, Head(entries).k, Head(entries).v),
                 LAMBDA a2 : TypeRefLoop(a2, Tail(entries)))

\* deserializer.deserialize_map(TypeRefVisitor)
deserialize_type_ref(value) ==
    IF value.t # "obj" THEN Err("invalid_type", "TypeRef")
    ELSE AndThen(TypeRefLoop(TypeRefNew, value.v), TypeRefEnd)

\* Deserialize for DeserializeWith<NamedType>: a type reference that must be
\* a plain name.
RECURSIVE LeafName(_)
LeafName(type_ref) ==
    IF type_ref.tag = "NamedType" THEN type_ref.val ELSE LeafName(type_ref.val)

\* A variant of NamedOnly that takes the name at the end of a wrapper chain.
NamedOnlyLeaf(type_ref) == Ok(LeafName(type_ref))

NamedOnly(type_ref) ==
    IF type_ref.tag = "NamedType" THEN Ok(type_ref.val)
    ELSE Err("custom", "Expected NamedType")

deserialize_named_type(value) == AndThen(deserialize_type_ref(value), NamedOnly)

\* --------------------------------------------------------- InputValueVisitor

InputValueNew ==
    [name |-> None, description |-> None, maybe_value_type |-> None,
     default_value_json |-> None]

InputValueKey(a, key, value) ==
    CASE key = NAME_ALIAS ->
           MapOk(DeString(value), LAMBDA x : [a EXCEPT !.name = Some(x)])
      [] key = DESCRIPTION_ALIAS ->
           MapOk(DeOptionString(value), LAMBDA x : [a EXCEPT !.description = x])
      [] key = TYPE_ALIAS ->
           MapOk(deserialize_value(deserialize_type_ref, value),
                 LAMBDA x : [a EXCEPT !.maybe_value_type = x])
      [] key = DEFAULT_VALUE_ALIAS ->
           Ok([a EXCEPT !.default_value_json =
                   IF value.t = "null" THEN None ELSE Some(value)])
      [] OTHER -> Then(handle_unexpected_key(key, value), a)

\* The type is required before the name.
InputValueBuild(a, value_type) ==
    MapOk(require_field(NAME_ALIAS, a.name),
          LAMBDA name : [description |-> a.description, name |-> name,
                         value_type |-> value_type, default_value |-> None])

InputValueEnd(a) ==
    AndThen(require_field(TYPE_ALIAS, a.maybe_value_type),
            LAMBDA value_type : InputValueBuild(a, value_type))

\* The key loop of InputValueVisitor over the entries of one object; an error
\* leaves it at once.
RECURSIVE InputValueLoop(_, _)
InputValueLoop(a, entries) ==
    IF entries = <<>> THEN Ok(a)
    ELSE AndThen(InputValueKey(a, Head(entries).k, Head(entries).v),
                 LAMBDA a2 : InputValueLoop(a2, Tail(entries)))

\* deserializer.deserialize_map(InputValueVisitor)
deserialize_input_value(value) ==
    IF value.t # "obj" THEN Err("invalid_type", "InputValue")
    ELSE AndThen(InputValueLoop(InputValueNew, value.v), InputValueEnd)

\* -------------------------------------------------------------- FieldVisitor

FieldNew ==
    [name |-> None, description |-> None, value_type |-> None,
     input_fields |-> None]

FieldKey(a, key, value) ==
    CASE key = NAME_ALIAS ->
           MapOk(DeString(value), LAMBDA x : [a EXCEPT !.name = Some(x)])
      [] key = DESCRIPTION_ALIAS ->
           MapOk(DeOptionString(value), LAMBDA x : [a EXCEPT !.description = x])
      [] key = TYPE_ALIAS ->
           MapOk(deserialize_value(deserialize_type_ref, value),
                 LAMBDA x : [a EXCEPT !.value_type = x])
      [] key = ARGS_ALIAS ->
           MapOk(deserialize_array(deserialize_input_value, value),
                 LAMBDA x : [a EXCEPT !.input_fields = x])
      [] key = IS_DEPRECATED_ALIAS -> Ok(a)
      [] key = DEPRECATION_REASON_ALIAS -> Ok(a)
      [] OTHER -> Then(handle_unexpected_key(key, value), a)

\* The name is required before the type.
FieldBuild(a, name) ==
    MapOk(require_field(TYPE_ALIAS, a.value_type),
          LAMBDA field_type :
              [description |-> a.description, name |-> name,
               arguments |-> unwrap_or_else_vec(a.input_fields),
               field_type |-> field_type])

FieldEnd(a) ==
    AndThen(require_field(NAME_ALIAS, a.name), LAMBDA name : FieldBuild(a, name))

\* The key loop of FieldVisitor over the entries of one object; an error
\* leaves it at once.
RECURSIVE FieldLoop(_, _)
FieldLoop(a, entries) ==
    IF entries = <<>> THEN Ok(a)
    ELSE AndThen(FieldKey(a, Head(entries).k, Head(entries).v),
                 LAMBDA a2 : FieldLoop(a2, Tail(entries)))

\* deserializer.deserialize_map(FieldVisitor)
deserialize_field(value) ==
    IF value.t # "obj" THEN Err("invalid_type", "Field")
    ELSE AndThen(FieldLoop(FieldNew, value.v), FieldEnd)

\* ---------------------------------------------------------- EnumValueVisitor

EnumValueNew == [name |-> None, description |-> None]

EnumValueKey(a, key, value) ==
    CASE key = NAME_ALIAS ->
           MapOk(DeString(value), LAMBDA x : [a EXCEPT !.name = Some(x)])
      [] key = DESCRIPTION_ALIAS ->
           MapOk(DeOptionString(value), LAMBDA x : [a EXCEPT !.description = x])
      [] key = IS_DEPRECATED_ALIAS -> Ok(a)
      [] key = DEPRECATION_REASON_ALIAS -> Ok(a)
      [] OTHER -> Then(handle_unexpected_key(key, value), a)

EnumValueEnd(a) ==
    MapOk(require_field(NAME_ALIAS, a.name),
          LAMBDA name : [description |-> a.description, name |-> name])

\* The key loop of EnumValueVisitor over the entries of one object; an error
\* leaves it at once.
RECURSIVE EnumValueLoop(_, _)
EnumValueLoop(a, entries) ==
    IF entries = <<>> THEN Ok(a)
    ELSE AndThen(EnumValueKey(a, Head(entries).k, Head(entries).v),
                 LAMBDA a2 : EnumValueLoop(a2, Tail(entries)))

\* deserializer.deserialize_map(EnumValueVisitor)
deserialize_enum_value(value) ==
    IF value.t # "obj" THEN Err("invalid_type", "EnumValue")
    ELSE AndThen(EnumValueLoop(EnumValueNew, value.v), EnumValueEnd)

\* ----------------------------------------------------- TypeDefinitionVisitor

TypeDefinitionNew ==
    [kind |-> None, maybe_name |-> None, description |-> None, fields |-> None,
     input_fields |-> None, interfaces |-> None, enum_values |-> None,
     possible_types |-> None]

NullAsEmpty(value) == IF value.t = "null" THEN JArr(<<>>) ELSE value

\* A variant of TypeDefinitionKey that stores a null structural value as an
\* empty sequence.
TypeDefinitionKeyNullEmpty(a, key, value) ==
    CASE key = KIND_ALIAS ->
           MapOk(DeTypeKind(value), LAMBDA x : [a EXCEPT !.kind = Some(x)])
      [] key = NAME_ALIAS ->
           MapOk(DeString(value), LAMBDA x : [a EXCEPT !.maybe_name = Some(x)])
      [] key = DESCRIPTION_ALIAS ->
           MapOk(DeOptionString(value), LAMBDA x : [a EXCEPT !.description = x])
      [] key = FIELDS_ALIAS ->
           MapOk(deserialize_array(deserialize_field, NullAsEmpty(value)),
                 LAMBDA x : [a EXCEPT !.fields = x])
      [] key = INPUT_FIELDS_ALIAS ->
           MapOk(deserialize_array(deserialize_input_value, NullAsEmpty(value)),
                 LAMBDA x : [a EXCEPT !.input_fields = x])
      [] key = INTERFACES_ALIAS ->
           MapOk(deserialize_array(deserialize_named_type, NullAsEmpty(value)),
                 LAMBDA x : [a EXCEPT !.interfaces = x])
      [] key = ENUM_VALUES_ALIAS ->
           MapOk(deserialize_array(deserialize_enum_value, NullAsEmpty(value)),
                 LAMBDA x : [a EXCEPT !.enum_values = x])
      [] key = POSSIBLE_TYPES_ALIAS ->
           MapOk(deserialize_array(deserialize_named_type, NullAsEmpty(value)),
                 LAMBDA x : [a EXCEPT !.possible_types = x])
      [] OTHER -> Then(handle_unexpected_key(key, value), a)

TypeDefinitionKey(a, key, value) ==
    CASE key = KIND_ALIAS ->
           MapOk(DeTypeKind(value), LAMBDA x : [a EXCEPT !.kind = Some(x)])
      [] key = NAME_ALIAS ->
           MapOk(DeString(value), LAMBDA x : [a EXCEPT !.maybe_name = Some(x)])
      [] key = DESCRIPTION_ALIAS ->
           MapOk(DeOptionString(value), LAMBDA x : [a EXCEPT !.description = x])
      [] key = FIELDS_ALIAS ->
           MapOk(deserialize_array(deserialize_field, value),
                 LAMBDA x : [a EXCEPT !.fields = x])
      [] key = INPUT_FIELDS_ALIAS ->
           MapOk(deserialize_array(deserialize_input_value, value),
                 LAMBDA x : [a EXCEPT !.input_fields = x])
      [] key = INTERFACES_ALIAS ->
           MapOk(deserialize_array(deserialize_named_type, value),
                 LAMBDA x : [a EXCEPT !.interfaces = x])
      [] key = ENUM_VALUES_ALIAS ->
           MapOk(deserialize_array(deserialize_enum_value, value),
                 LAMBDA x : [a EXCEPT !.enum_values = x])
      [] key = POSSIBLE_TYPES_ALIAS ->
           MapOk(deserialize_array(deserialize_named_type, value),
                 LAMBDA x : [a EXCEPT !.possible_types = x])
      [] OTHER -> Then(handle_unexpected_key(key, value), a)

ScalarArm(a, name) ==
    Then(FirstErr(<<require_field_empty(FIELDS_ALIAS, a.fields),
                    require_field_empty(INPUT_FIELDS_ALIAS, a.input_fields),
                    require_field_empty(INTERFACES_ALIAS, a.interfaces),
                    require_field_empty(POSSIBLE_TYPES_ALIAS, a.possible_types)>>),
         [tag |-> "Scalar", description |-> a.description, name |-> name])

ObjectArm(a, name) ==
    Then(FirstErr(<<require_field_empty(INPUT_FIELDS_ALIAS, a.input_fields),
                    require_field_empty(POSSIBLE_TYPES_ALIAS, a.possible_types)>>),
         [tag |-> "Object", description |-> a.description, name |-> name,
          implements_interfaces |-> unwrap_or_else_vec(a.interfaces),
          fields |-> unwrap_or_else_vec(a.fields)])

\* A variant of InterfaceArm that also rejects possibleTypes.
InterfaceArmStrict(a, name) ==
    Then(FirstErr(<<require_field_empty(INPUT_FIELDS_ALIAS, a.input_fields),
                    require_field_empty(INTERFACES_ALIAS, a.interfaces),
                    require_field_empty(POSSIBLE_TYPES_ALIAS, a.possible_types)>>),
         [tag |-> "Interface", description |-> a.description, name |-> name,
          fields |-> unwrap_or_else_vec(a.fields)])

\* possibleTypes is not checked here: "they're ok here".
InterfaceArm(a, name) ==
    Then(FirstErr(<<require_field_empty(INPUT_FIELDS_ALIAS, a.input_fields),
                    require_field_empty(INTERFACES_ALIAS, a.interfaces)>>),
         [tag |-> "Interface", description |-> a.description, name |-> name,
          fields |-> unwrap_or_else_vec(a.fields)])

UnionArm(a, name) ==
    Then(FirstErr(<<require_field_empty(FIELDS_ALIAS, a.fields),
                    require_field_empty(INPUT_FIELDS_ALIAS, a.input_fields),
                    require_field_empty(INTERFACES_ALIAS, a.interfaces)>>),
         [tag |-> "Union", description |-> a.description, name |-> name,
          types |-> unwrap_or_else_vec(a.possible_types)])

EnumArm(a, name) ==
    Then(FirstErr(<<require_field_empty(FIELDS_ALIAS, a.fields),
                    require_field_empty(INPUT_FIELDS_ALIAS, a.input_fields),
                    require_field_empty(INTERFACES_ALIAS, a.interfaces),
                    require_field_empty(POSSIBLE_TYPES_ALIAS, a.possible_types)>>),
         [tag |-> "Enum", description |-> a.description, name |-> name,
          values |-> unwrap_or_else_vec(a.enum_values)])

InputObjectArm(a, name) ==
    Then(FirstErr(<<require_field_empty(FIELDS_ALIAS, a.fields),
                    require_field_empty(INTERFACES_ALIAS, a.interfaces),
                    require_field_empty(POSSIBLE_TYPES_ALIAS, a.possible_types)>>),
         [tag |-> "InputObject", description |-> a.description, name |-> name,
          fields |-> unwrap_or_else_vec(a.input_fields)])

\* `match require_field(KIND_ALIAS, kind)?`
KindArm(a, name, kind) ==
    CASE kind = "Scalar" -> ScalarArm(a, name)
      [] kind = "Object" -> ObjectArm(a, name)
      [] kind = "Interface" -> InterfaceArm(a, name)
      [] kind = "Union" -> UnionArm(a, name)
      [] kind = "Enum" -> EnumArm(a, name)
      [] kind = "InputObject" -> InputObjectArm(a, name)

TypeDefinitionMatch(a, name) ==
    AndThen(require_field(KIND_ALIAS, a.kind),
            LAMBDA kind : KindArm(a, name, kind))

\* A variant of TypeDefinitionEnd that requires the name after the kind's arm.
TypeDefinitionEndKindFirst(a) ==
    AndThen(TypeDefinitionMatch(a, ""),
            LAMBDA td : MapOk(require_field(NAME_ALIAS, a.maybe_name),
                              LAMBDA name : [td EXCEPT !.name = name]))

\* The code after the key loop: the name first, then the kind and its arm.
TypeDefinitionEnd(a) ==
    AndThen(require_field(NAME_ALIAS, a.maybe_name),
            LAMBDA name : TypeDefinitionMatch(a, name))

\* The key loop of TypeDefinitionVisitor over the entries of one object; an error
\* leaves it at once.
RECURSIVE TypeDefinitionLoop(_, _)
TypeDefinitionLoop(a, entries) ==
    IF entries = <<>> THEN Ok(a)
    ELSE AndThen(TypeDefinitionKey(a, Head(entries).k, Head(entries).v),
                 LAMBDA a2 : TypeDefinitionLoop(a2, Tail(entries)))

\* deserializer.deserialize_map(TypeDefinitionVisitor)
deserialize_type_definition(value) ==
    IF value.t # "obj" THEN Err("invalid_type", "TypeDefinition")
    ELSE AndThen(TypeDefinitionLoop(TypeDefinitionNew, value.v), TypeDefinitionEnd)

\* ----------------------------------------------------------- DocumentVisitor

RootName(value) ==
    LET n == MapGet(value.v, "name")
    IN  IF ~is_none(n) /\ n[1].t = "str" THEN Ok(Some(n[1].v))
        ELSE Err("missing_field", "name")

\* A variant of deserialize_root_type without the arm for JSON null.
deserialize_root_type_no_null(previous_result, alias, value) ==
    IF is_none(previous_result)
    THEN CASE value.t = "obj" -> RootName(value)
           [] OTHER -> Err("invalid_type", "object type")
    ELSE Err("duplicate_field", alias)

deserialize_root_type(previous_result, alias, value) ==
    IF is_none(previous_result)
    THEN CASE value.t = "null" -> Ok(None)
           [] value.t = "obj" -> RootName(value)
           [] OTHER -> Err("invalid_type", "object type")
    ELSE Err("duplicate_field", alias)

DefinitionTypeDefinition(td) == [def |-> "TypeDefinition", val |-> td]
DefinitionSchemaDefinition(sd) == [def |-> "SchemaDefinition", val |-> sd]

MapDefinitions(tds) ==
    [i \in 1..Len(tds) |-> DefinitionTypeDefinition(tds[i])]

DocumentNew ==
    [query_type |-> None, mutation_type |-> None, subscription_type |-> None,
     types |-> <<>>]

\* A variant of DocumentKey that extends `types` instead of replacing it.
DocumentKeyAppendTypes(a, key, value) ==
    CASE key = QUERY_TYPE_ALIAS ->
           MapOk(deserialize_root_type(a.query_type, QUERY_TYPE_ALIAS, value),
                 LAMBDA x : [a EXCEPT !.query_type = x])
      [] key = MUTATION_TYPE_ALIAS ->
           MapOk(deserialize_root_type(a.mutation_type, MUTATION_TYPE_ALIAS,
                                       value),
                 LAMBDA x : [a EXCEPT !.mutation_type = x])
      [] key = SUBSCRIPTION_TYPE_ALIAS ->
           MapOk(deserialize_root_type(a.subscription_type,
                                       SUBSCRIPTION_TYPE_ALIAS, value),
                 LAMBDA x : [a EXCEPT !.subscription_type = x])
      [] key = DIRECTIVES_ALIAS -> Ok(a)
      [] key = TYPES_ALIAS ->
           MapOk(DeVec(deserialize_type_definition, value),
                 LAMBDA x : [a EXCEPT !.types = @ \o MapDefinitions(x)])
      [] OTHER -> Then(handle_unexpected_key(key, value), a)

DocumentKey(a, key, value) ==
    CASE key = QUERY_TYPE_ALIAS ->
           MapOk(deserialize_root_type(a.query_type, QUERY_TYPE_ALIAS, value),
                 LAMBDA x : [a EXCEPT !.query_type = x])
      [] key = MUTATION_TYPE_ALIAS ->
           MapOk(deserialize_root_type(a.mutation_type, MUTATION_TYPE_ALIAS,
                                       value),
                 LAMBDA x : [a EXCEPT !.mutation_type = x])
      [] key = SUBSCRIPTION_TYPE_ALIAS ->
           MapOk(deserialize_root_type(a.subscription_type,
                                       SUBSCRIPTION_TYPE_ALIAS, value),
                 LAMBDA x : [a EXCEPT !.subscription_type = x])
      [] key = DIRECTIVES_ALIAS -> Ok(a)
      [] key = TYPES_ALIAS ->
           MapOk(DeVec(deserialize_type_definition, value),
                 LAMBDA x : [a EXCEPT !.types = MapDefinitions(x)])
      [] OTHER -> Then(handle_unexpected_key(key, value), a)

\* A variant of DocumentEnd that puts the schema definition first.
DocumentEndSchemaFirst(a) ==
    Ok([definitions |->
            <<DefinitionSchemaDefinition([query |-> a.query_type,
                                          mutation |-> a.mutation_type,
                                          subscription |-> a.subscription_type])>>
            \o a.types])

DocumentEnd(a) ==
    LET schema_definition ==
            DefinitionSchemaDefinition([query |-> a.query_type,
                                        mutation |-> a.mutation_type,
                                        subscription |-> a.subscription_type])
    IN  Ok([definitions |-> Append(a.types, schema_definition)])

\* The key loop of DocumentVisitor over the entries of one object; an error
\* leaves it at once.
RECURSIVE DocumentLoop(_, _)
DocumentLoop(a, entries) ==
    IF entries = <<>> THEN Ok(a)
    ELSE AndThen(DocumentKey(a, Head(entries).k, Head(entries).v),
                 LAMBDA a2 : DocumentLoop(a2, Tail(entries)))

\* deserializer.deserialize_map(DocumentVisitor)
deserialize_document(value) ==
    IF value.t # "obj" THEN Err("invalid_type", "Document")
    ELSE AndThen(DocumentLoop(DocumentNew, value.v), DocumentEnd)

\* ------------------------------------------------- the visitors, by level

Levels == {"Document", "TypeDefinition", "Field", "InputValue", "EnumValue",
           "TypeRef"}

\* The locals of visit_map as they are when the key loop starts.
VisitNew(lv) ==
    CASE lv = "Document" -> DocumentNew
      [] lv = "TypeDefinition" -> TypeDefinitionNew
      [] lv = "Field" -> FieldNew
      [] lv = "InputValue" -> InputValueNew
      [] lv = "EnumValue" -> EnumValueNew
      [] lv = "TypeRef" -> TypeRefNew

\* One turn of `while let Some(key) = access.next_key()?`.
VisitKey(lv, a, key, value) ==
    CASE lv = "Document" -> DocumentKey(a, key, value)
      [] lv = "TypeDefinition" -> TypeDefinitionKey(a, key, value)
      [] lv = "Field" -> FieldKey(a, key, value)
      [] lv = "InputValue" -> InputValueKey(a, key, value)
      [] lv = "EnumValue" -> EnumValueKey(a, key, value)
      [] lv = "TypeRef" -> TypeRefKey(a, key, value)

\* What visit_map does once next_key() returns None.
VisitEnd(lv, a) ==
    CASE lv = "Document" -> DocumentEnd(a)
      [] lv = "TypeDefinition" -> TypeDefinitionEnd(a)
      [] lv = "Field" -> FieldEnd(a)
      [] lv = "InputValue" -> InputValueEnd(a)
      [] lv = "EnumValue" -> EnumValueEnd(a)
      [] lv = "TypeRef" -> TypeRefEnd(a)

\* The whole visitor on one JSON value.
Visit(lv, value) ==
    CASE lv = "Document" -> deserialize_document(value)
      [] lv = "TypeDefinition" -> deserialize_type_definition(value)
      [] lv = "Field" -> deserialize_field(value)
      [] lv = "InputValue" -> deserialize_input_value(value)
      [] lv = "EnumValue" -> deserialize_enum_value(value)
      [] lv = "TypeRef" -> deserialize_type_ref(value)

\* ------------------------------------------------------------------ inputs
\* The JSON values the visitors are fed: introspection-shaped objects, good
\* and malformed.

RefNamed(n) ==
    JObj(<<Entry(KIND_ALIAS, JStr("SCALAR")), Entry(NAME_ALIAS, JStr(n)),
           Entry(OF_TYPE_ALIAS, JNull)>>)
RefWrap(k, inner) ==
    JObj(<<Entry(KIND_ALIAS, JStr(k)), Entry(NAME_ALIAS, JNull),
           Entry(OF_TYPE_ALIAS, inner)>>)

\* {"kind":"LIST","ofType":{"kind":"NON_NULL","ofType":{"kind":"SCALAR",
\* "name":"String"}}}: the inner part of the nested reference of the spec.
RefListNonNullString ==
    JObj(<<Entry(KIND_ALIAS, JStr("LIST")),
           Entry(OF_TYPE_ALIAS,
                 JObj(<<Entry(KIND_ALIAS, JStr("NON_NULL")),
                        Entry(OF_TYPE_ALIAS,
                              JObj(<<Entry(KIND_ALIAS, JStr("SCALAR")),
                                     Entry(NAME_ALIAS, JStr("String"))>>))>>))>>)

GoodRefs == {RefNamed("Int"), RefWrap("NON_NULL", RefNamed("String")),
             RefListNonNullString}
BadRefs == {RefWrap("LIST", JNull),
            JObj(<<Entry(KIND_ALIAS, JStr("SCALAR"))>>),
            RefWrap("NON_NULL", JObj(<<Entry(KIND_ALIAS, JStr("LIST"))>>))}

InputValueObj(n, ref) ==
    JObj(<<Entry(NAME_ALIAS, JStr(n)), Entry(DESCRIPTION_ALIAS, JNull),
           Entry(TYPE_ALIAS, ref), Entry(DEFAULT_VALUE_ALIAS, JStr("1"))>>)
BadInputValueObj == JObj(<<Entry(NAME_ALIAS, JStr("a"))>>)

FieldObj(n, ref, args) ==
    JObj(<<Entry(NAME_ALIAS, JStr(n)), Entry(DESCRIPTION_ALIAS, JStr("d")),
           Entry(ARGS_ALIAS, JArr(args)), Entry(TYPE_ALIAS, ref),
           Entry(IS_DEPRECATED_ALIAS, JBool),
           Entry(DEPRECATION_REASON_ALIAS, JNull)>>)

EnumValueObj(n) ==
    JObj(<<Entry(NAME_ALIAS, JStr(n)), Entry(DESCRIPTION_ALIAS, JNull),
           Entry(IS_DEPRECATED_ALIAS, JBool),
           Entry(DEPRECATION_REASON_ALIAS, JNull)>>)

FieldsArr ==
    JArr(<<FieldObj("f", RefNamed("Int"), <<>>),
           FieldObj("g", RefListNonNullString,
                    <<InputValueObj("a", RefNamed("Int"))>>)>>)
InputFieldsArr ==
    JArr(<<InputValueObj("b", RefNamed("Int")),
           InputValueObj("a", RefWrap("NON_NULL", RefNamed("String")))>>)
NamesArr == JArr(<<RefNamed("J"), RefNamed("I")>>)
WrappedNamesArr == JArr(<<RefNamed("I"), RefWrap("LIST", RefNamed("J"))>>)
NonNullNamesArr == JArr(<<RefWrap("NON_NULL", RefNamed("J"))>>)
EnumValuesArr == JArr(<<EnumValueObj("RED"), EnumValueObj("GREEN")>>)
EmptyArr == JArr(<<>>)

\* Type objects as the standard introspection query returns them.
ScalarObj(n) ==
    JObj(<<Entry(KIND_ALIAS, JStr("SCALAR")), Entry(NAME_ALIAS, JStr(n)),
           Entry(DESCRIPTION_ALIAS, JNull), Entry(FIELDS_ALIAS, JNull),
           Entry(ENUM_VALUES_ALIAS, JNull)>>)
ObjectObj(n) ==
    JObj(<<Entry(KIND_ALIAS, JStr("OBJECT")), Entry(NAME_ALIAS, JStr(n)),
           Entry(FIELDS_ALIAS, FieldsArr), Entry(INTERFACES_ALIAS, EmptyArr),
           Entry(POSSIBLE_TYPES_ALIAS, JNull)>>)
NamelessObj == JObj(<<Entry(KIND_ALIAS, JStr("OBJECT"))>>)

TypesArrs ==
    {EmptyArr, JArr(<<ScalarObj("A")>>), JArr(<<ScalarObj("A"), ObjectObj("B")>>),
     JArr(<<ObjectObj("B"), ScalarObj("A")>>), JArr(<<ScalarObj("")>>),
     JArr(<<ScalarObj("A"), NamelessObj>>)}

RootValues ==
    {JNull, JObj(<<Entry(NAME_ALIAS, JStr("Query"))>>), JObj(<<>>),
     JStr("Query"), JNum, JBool, EmptyArr}

AnyValues == {JNull, JObj(<<Entry(NAME_ALIAS, JStr("x"))>>)}

\* The keys a visitor is fed, in a fixed order; the last is the unknown key.
KeyOrder(lv) ==
    CASE lv = "Document" ->
           <<QUERY_TYPE_ALIAS, MUTATION_TYPE_ALIAS, SUBSCRIPTION_TYPE_ALIAS,
             DIRECTIVES_ALIAS, TYPES_ALIAS, UNKNOWN_KEY>>
      [] lv = "TypeDefinition" ->
           <<KIND_ALIAS, NAME_ALIAS, DESCRIPTION_ALIAS, FIELDS_ALIAS,
             INPUT_FIELDS_ALIAS, INTERFACES_ALIAS, ENUM_VALUES_ALIAS,
             POSSIBLE_TYPES_ALIAS, UNKNOWN_KEY>>
      [] lv = "Field" ->
           <<NAME_ALIAS, DESCRIPTION_ALIAS, TYPE_ALIAS, ARGS_ALIAS,
             IS_DEPRECATED_ALIAS, DEPRECATION_REASON_ALIAS, UNKNOWN_KEY>>
      [] lv = "InputValue" ->
           <<NAME_ALIAS, DESCRIPTION_ALIAS, TYPE_ALIAS, DEFAULT_VALUE_ALIAS,
             UNKNOWN_KEY>>
      [] lv = "EnumValue" ->
           <<NAME_ALIAS, DESCRIPTION_ALIAS, IS_DEPRECATED_ALIAS,
             DEPRECATION_REASON_ALIAS, UNKNOWN_KEY>>
      [] lv = "TypeRef" ->
           <<KIND_ALIAS, NAME_ALIAS, OF_TYPE_ALIAS, UNKNOWN_KEY>>

KeysOf(lv) == {KeyOrder(lv)[i] : i \in 1..Len(KeyOrder(lv))}

StructuralKeys ==
    {FIELDS_ALIAS, INPUT_FIELDS_ALIAS, INTERFACES_ALIAS, ENUM_VALUES_ALIAS,
     POSSIBLE_TYPES_ALIAS}

\* The keys an input object may carry more than once.  A type object repeats
\* its structural keys only; every other object may repeat any key.
RepeatKeys(lv) == IF lv = "TypeDefinition" THEN StructuralKeys ELSE KeysOf(lv)

StructuralValues(arr) == {JNull, EmptyArr, arr}

ValuesOf(lv, key) ==
    CASE key = UNKNOWN_KEY -> AnyValues
      [] key \in {QUERY_TYPE_ALIAS, MUTATION_TYPE_ALIAS,
                  SUBSCRIPTION_TYPE_ALIAS} -> RootValues
      [] key = DIRECTIVES_ALIAS -> {EmptyArr}
      [] key = TYPES_ALIAS -> TypesArrs
      [] key = KIND_ALIAS /\ lv = "TypeDefinition" ->
           {JStr("SCALAR"), JStr("OBJECT"), JStr("INTERFACE"), JStr("UNION"),
            JStr("ENUM"), JStr("INPUT_OBJECT"), JStr("LIST")}
      [] key = KIND_ALIAS /\ lv = "TypeRef" ->
           {JStr("LIST"), JStr("NON_NULL"), JStr("SCALAR"), JStr("OBJECT")}
      [] key = NAME_ALIAS /\ lv = "TypeDefinition" -> {JStr("A"), JStr("")}
      [] key = NAME_ALIAS /\ lv = "TypeRef" -> {JNull, JStr("String")}
      [] key = NAME_ALIAS -> {JStr("a"), JNum}
      [] key = DESCRIPTION_ALIAS -> {JNull, JStr("d")}
      [] key = FIELDS_ALIAS -> StructuralValues(FieldsArr)
      [] key = INPUT_FIELDS_ALIAS -> StructuralValues(InputFieldsArr)
      [] key = INTERFACES_ALIAS ->
           StructuralValues(NamesArr) \cup {WrappedNamesArr, NonNullNamesArr}
      [] key = ENUM_VALUES_ALIAS -> {JNull, EnumValuesArr}
      [] key = POSSIBLE_TYPES_ALIAS ->
           StructuralValues(NamesArr) \cup {WrappedNamesArr, NonNullNamesArr}
      [] key = TYPE_ALIAS -> {JNull} \cup GoodRefs \cup BadRefs
      [] key = OF_TYPE_ALIAS -> {JNull} \cup GoodRefs \cup BadRefs
      [] key = ARGS_ALIAS ->
           StructuralValues(InputFieldsArr) \cup {JArr(<<BadInputValueObj>>)}
      [] key = DEFAULT_VALUE_ALIAS -> {JNull, JStr("1")}
      [] key = IS_DEPRECATED_ALIAS -> {JBool}
      [] key = DEPRECATION_REASON_ALIAS -> {JNull}

\* -------------------------------------------------------- the state machine
\* One run of one visitor: `level` is the visitor, `acc` its locals, `seen`
\* the values it has been handed so far for each key, in order.

RECURSIVE SumLens(_, _)
SumLens(s, keys) ==
    IF keys = <<>> THEN 0 ELSE Len(s[Head(keys)]) + SumLens(s, Tail(keys))

Consumed == SumLens(seen, KeyOrder(level))

Pending == Err("pending", "")

Init ==
    /\ level \in Levels
    /\ pc = "loop"
    /\ acc = VisitNew(level)
    /\ seen = [k \in KeysOf(level) |-> <<>>]
    /\ result = Pending

\* next_key() yields a key and the match arm for it runs; `?` returns the
\* error of a failed arm from visit_map.
NextKey(lv) ==
    /\ level = lv
    /\ pc = "loop"
    /\ Consumed < MaxKeys
    /\ \E key \in {k \in KeysOf(lv) : k \in RepeatKeys(lv) \/ seen[k] = <<>>} :
         \E value \in ValuesOf(lv, key) :
           \E r \in {VisitKey(lv, acc, key, value)} :
               /\ seen' = [seen EXCEPT ![key] = Append(@, value)]
               /\ IF r.ok
                  THEN acc' = r.val /\ pc' = "loop" /\ result' = result
                  ELSE acc' = acc /\ pc' = "failed" /\ result' = r
    /\ UNCHANGED level

\* next_key() yields None: the loop ends and visit_map builds its result.
EndOfMap(lv) ==
    /\ level = lv
    /\ pc = "loop"
    /\ pc' = "returned"
    /\ result' = VisitEnd(lv, acc)
    /\ UNCHANGED <<level, acc, seen>>

DocumentVisitorKey == NextKey("Document")
DocumentVisitorEnd == EndOfMap("Document")
TypeDefinitionVisitorKey == NextKey("TypeDefinition")
TypeDefinitionVisitorEnd == EndOfMap("TypeDefinition")
FieldVisitorKey == NextKey("Field")
FieldVisitorEnd == EndOfMap("Field")
InputValueVisitorKey == NextKey("InputValue")
InputValueVisitorEnd == EndOfMap("InputValue")
EnumValueVisitorKey == NextKey("EnumValue")
EnumValueVisitorEnd == EndOfMap("EnumValue")
TypeRefVisitorKey == NextKey("TypeRef")
TypeRefVisitorEnd == EndOfMap("TypeRef")

Next ==
    \/ DocumentVisitorKey
    \/ DocumentVisitorEnd
    \/ TypeDefinitionVisitorKey
    \/ TypeDefinitionVisitorEnd
    \/ FieldVisitorKey
    \/ FieldVisitorEnd
    \/ InputValueVisitorKey
    \/ InputValueVisitorEnd
    \/ EnumValueVisitorKey
    \/ EnumValueVisitorEnd
    \/ TypeRefVisitorKey
    \/ TypeRefVisitorEnd

Spec == Init /\ [][Next]_vars

\* The same visitors, as run for the claims on how values are taken: null
\* under a structural key, the entries of name lists, keys that come twice.
SpecValues == Init /\ [][Next]_vars

\* ------------------------------------------------- reading the input back

Last(s) == s[Len(s)]

\* The object the visitor has consumed, its keys in KeyOrder; `drop` are the
\* keys left out.
RECURSIVE EntriesOf(_, _, _)
EntriesOf(s, keys, drop) ==
    IF keys = <<>> THEN <<>>
    ELSE (IF Head(keys) \in drop THEN <<>>
          ELSE [i \in 1..Len(s[Head(keys)]) |-> Entry(Head(keys), s[Head(keys)][i])])
         \o EntriesOf(s, Tail(keys), drop)

ObjectOf(s, drop) == JObj(EntriesOf(s, KeyOrder(level), drop))
ObjectSeen(drop) == ObjectOf(seen, drop)

\* The `name` string of an element object of an input array.
ElemName(obj) == MapGet(obj.v, NAME_ALIAS)[1].v
ElemNames(arr) == [i \in 1..Len(arr.v) |-> ElemName(arr.v[i])]
NamesOf(records) == [i \in 1..Len(records) |-> records[i].name]

\* Section 4.3 of the specification: the dispatch table.
ForbiddenKeys(kind) ==
    CASE kind = "SCALAR" ->
           {FIELDS_ALIAS, INPUT_FIELDS_ALIAS, INTERFACES_ALIAS, POSSIBLE_TYPES_ALIAS}
      [] kind = "OBJECT" -> {INPUT_FIELDS_ALIAS, POSSIBLE_TYPES_ALIAS}
      [] kind = "INTERFACE" -> {INPUT_FIELDS_ALIAS, INTERFACES_ALIAS}
      [] kind = "UNION" -> {FIELDS_ALIAS, INPUT_FIELDS_ALIAS, INTERFACES_ALIAS}
      [] kind = "ENUM" ->
           {FIELDS_ALIAS, INPUT_FIELDS_ALIAS, INTERFACES_ALIAS, POSSIBLE_TYPES_ALIAS}
      [] kind = "INPUT_OBJECT" ->
           {FIELDS_ALIAS, INTERFACES_ALIAS, POSSIBLE_TYPES_ALIAS}

PermittedKeys(kind) ==
    CASE kind = "SCALAR" -> {}
      [] kind = "OBJECT" -> {FIELDS_ALIAS, INTERFACES_ALIAS}
      [] kind = "INTERFACE" -> {FIELDS_ALIAS}
      [] kind = "UNION" -> {POSSIBLE_TYPES_ALIAS}
      [] kind = "ENUM" -> {ENUM_VALUES_ALIAS}
      [] kind = "INPUT_OBJECT" -> {INPUT_FIELDS_ALIAS}

VariantOf(kind) ==
    CASE kind = "SCALAR" -> "Scalar"
      [] kind = "OBJECT" -> "Object"
      [] kind = "INTERFACE" -> "Interface"
      [] kind = "UNION" -> "Union"
      [] kind = "ENUM" -> "Enum"
      [] kind = "INPUT_OBJECT" -> "InputObject"

\* A type object whose key loop has ended, with a kind and a name.
TypeObjectRead ==
    /\ level = "TypeDefinition"
    /\ pc = "returned"
    /\ seen[KIND_ALIAS] # <<>>
    /\ seen[NAME_ALIAS] # <<>>

KindSeen == Last(seen[KIND_ALIAS]).v

\* The structural keys whose (last) value is a non-null array.
ArrayKeys == {k \in StructuralKeys : seen[k] # <<>> /\ Last(seen[k]).t = "arr"}

\* ------------------------------------------------------------------ claims

DescriptionSeen ==
    IF seen[DESCRIPTION_ALIAS] = <<>> \/ Last(seen[DESCRIPTION_ALIAS]).t = "null"
    THEN None
    ELSE Some(Last(seen[DESCRIPTION_ALIAS]).v)

\* The type object carries, once each and as arrays, exactly the structural
\* keys its kind populates.
ExactlyPermitted ==
    /\ TypeObjectRead
    /\ \A k \in StructuralKeys :
         IF k \in PermittedKeys(KindSeen)
         THEN Len(seen[k]) = 1 /\ seen[k][1].t = "arr"
         ELSE seen[k] = <<>>

FieldsReflect(decoded, arr) ==
    /\ NamesOf(decoded) = ElemNames(arr)
    /\ \A i \in 1..Len(arr.v) : Ok(decoded[i]) = deserialize_field(arr.v[i])

InputFieldsReflect(decoded, arr) ==
    /\ NamesOf(decoded) = ElemNames(arr)
    /\ \A i \in 1..Len(arr.v) : Ok(decoded[i]) = deserialize_input_value(arr.v[i])

SequencesReflect(td) ==
    CASE KindSeen = "SCALAR" -> DOMAIN td = {"tag", "description", "name"}
      [] KindSeen = "OBJECT" ->
           /\ FieldsReflect(td.fields, seen[FIELDS_ALIAS][1])
           /\ td.implements_interfaces = ElemNames(seen[INTERFACES_ALIAS][1])
      [] KindSeen = "INTERFACE" -> FieldsReflect(td.fields, seen[FIELDS_ALIAS][1])
      [] KindSeen = "UNION" -> td.types = ElemNames(seen[POSSIBLE_TYPES_ALIAS][1])
      [] KindSeen = "ENUM" ->
           NamesOf(td.values) = ElemNames(seen[ENUM_VALUES_ALIAS][1])
      [] KindSeen = "INPUT_OBJECT" ->
           InputFieldsReflect(td.fields, seen[INPUT_FIELDS_ALIAS][1])

\* C1: a type object with a kind, a name and exactly the structural keys of
\* its kind decodes to the variant of that kind, with the input's name and
\* description and with the input's nested sequences, element for element in
\* the input's order.
C1_PermittedKeysDecode ==
    ExactlyPermitted =>
        /\ result.ok
        /\ result.val.tag = VariantOf(KindSeen)
        /\ result.val.name = Last(seen[NAME_ALIAS]).v
        /\ result.val.description = DescriptionSeen
        /\ SequencesReflect(result.val)

\* An OBJECT with two fields and two interfaces has been decoded.
C1_Witness ==
    /\ ExactlyPermitted
    /\ KindSeen = "OBJECT"
    /\ seen[FIELDS_ALIAS] = <<FieldsArr>>
    /\ seen[INTERFACES_ALIAS] = <<NamesArr>>
    /\ result.ok
    /\ NamesOf(result.val.fields) = <<"f", "g">>
    /\ result.val.implements_interfaces = <<"J", "I">>

\* C2: a type object with a kind and a name that supplies, as a non-null
\* array (empty or not), a key the dispatch table forbids for its kind fails
\* with the forbidden-field error, and the error names such a key (the key,
\* when there is one only).
C2_ForbiddenKeyFails ==
    (TypeObjectRead /\ ArrayKeys \cap ForbiddenKeys(KindSeen) # {}) =>
        /\ ~result.ok
        /\ result.err = "unknown_field"
        /\ result.key \in ArrayKeys \cap ForbiddenKeys(KindSeen)

\* An OBJECT that carries `possibleTypes: []` has been refused for that key.
C2_Witness ==
    /\ TypeObjectRead
    /\ KindSeen = "OBJECT"
    /\ ArrayKeys = {POSSIBLE_TYPES_ALIAS}
    /\ seen[POSSIBLE_TYPES_ALIAS] = <<EmptyArr>>
    /\ result = Err("unknown_field", POSSIBLE_TYPES_ALIAS)

\* The structural keys supplied as arrays that the kind does not populate.
ForeignKeys == ArrayKeys \ PermittedKeys(KindSeen)

\* C3 as stated: a type object that supplies, as a non-null array, any
\* structural key of another variant is a decode error.
C3_ForeignKeyFails == (TypeObjectRead /\ ForeignKeys # {}) => ~result.ok

\* C3 as amended: a structural key of another variant, supplied as a
\* non-null array, is a decode error exactly when the dispatch table forbids
\* it for the kind; the foreign keys the table does not forbid (possibleTypes
\* on an INTERFACE, enumValues on every kind but ENUM) are accepted, and the
\* decoded definition is the one the object decodes to without them.
C3_ForeignKeyFailsIffForbidden ==
    (TypeObjectRead /\ ForeignKeys # {}) =>
        IF ForeignKeys \cap ForbiddenKeys(KindSeen) # {}
        THEN ~result.ok
        ELSE /\ result.ok
             /\ ForeignKeys \subseteq {POSSIBLE_TYPES_ALIAS, ENUM_VALUES_ALIAS}
             /\ POSSIBLE_TYPES_ALIAS \in ForeignKeys => KindSeen = "INTERFACE"
             /\ result = deserialize_type_definition(ObjectSeen(ForeignKeys))

\* An INTERFACE that carries a non-empty `possibleTypes` has been decoded.
C3_Witness ==
    /\ TypeObjectRead
    /\ KindSeen = "INTERFACE"
    /\ seen[POSSIBLE_TYPES_ALIAS] = <<NamesArr>>
    /\ ForeignKeys = {POSSIBLE_TYPES_ALIAS}
    /\ result.ok
    /\ result.val.tag = "Interface"

RootKeys == {QUERY_TYPE_ALIAS, MUTATION_TYPE_ALIAS, SUBSCRIPTION_TYPE_ALIAS}

NamedRoot == JObj(<<Entry(NAME_ALIAS, JStr("Query"))>>)

\* A root key has occurred twice or more, every occurrence of a root key was
\* null or an object with a name, and no `types` array was there to fail.
DuplicateRootRead ==
    /\ level = "Document"
    /\ pc # "loop"
    /\ seen[TYPES_ALIAS] = <<>>
    /\ \A k \in RootKeys :
         \A i \in 1..Len(seen[k]) : seen[k][i] \in {JNull, NamedRoot}
    /\ \E k \in RootKeys : Len(seen[k]) >= 2

\* C4: a `__schema` object in which a root key occurs more than once fails
\* with the duplicate-field error for that key, whatever the values of the
\* occurrences (null or a named object) and wherever they sit.
C4_DuplicateRootFails ==
    DuplicateRootRead =>
        \E k \in RootKeys :
            Len(seen[k]) >= 2 /\ result = Err("duplicate_field", k)

\* The elements of the last `types` array read, none when there was no array.
TypesSeen == IF seen[TYPES_ALIAS] = <<>> THEN <<>> ELSE Last(seen[TYPES_ALIAS]).v

\* C5: a returned Document ends with its one SchemaDefinition, and the
\* definitions before it are the type definitions decoded from the `types`
\* array, in the array's order (none when `types` is absent).
C5_SchemaDefinitionLast ==
    (level = "Document" /\ pc = "returned") =>
        /\ result.ok
        /\ Len(result.val.definitions) = Len(TypesSeen) + 1
        /\ Last(result.val.definitions).def = "SchemaDefinition"
        /\ \A i \in 1..Len(TypesSeen) :
             /\ result.val.definitions[i].def = "TypeDefinition"
             /\ result.val.definitions[i].val.name = ElemName(TypesSeen[i])
             /\ Ok(result.val.definitions[i].val)
                    = deserialize_type_definition(TypesSeen[i])

\* The Document of `types: [B, A]` is B, A and then the schema definition.
C5_Witness ==
    /\ level = "Document"
    /\ pc = "returned"
    /\ seen[TYPES_ALIAS] = <<JArr(<<ObjectObj("B"), ScalarObj("A")>>)>>
    /\ seen[QUERY_TYPE_ALIAS] # <<>>
    /\ Len(result.val.definitions) = 3
    /\ result.val.definitions[1].val.name = "B"
    /\ result.val.definitions[2].val.name = "A"
    /\ result.val.definitions[3].def = "SchemaDefinition"

\* The type each well-formed reference of the inputs stands for.
ExpectedType(ref) ==
    CASE ref = RefNamed("Int") -> NamedType("Int")
      [] ref = RefWrap("NON_NULL", RefNamed("String")) ->
           NonNullType(NamedType("String"))
      [] ref = RefListNonNullString ->
           ListType(NonNullType(NamedType("String")))

RECURSIVE IsNamedChain(_)
IsNamedChain(t) ==
    \/ t.tag = "NamedType"
    \/ t.tag \in {"ListType", "NonNullType"} /\ IsNamedChain(t.val)

\* The last value of a key, None when the key is absent or its value null.
ValueSeen(k) ==
    IF seen[k] = <<>> \/ Last(seen[k]).t = "null" THEN None
    ELSE Some(Last(seen[k]))

\* C6: LIST gives List(decode(ofType)), NON_NULL gives NonNull(decode(ofType)),
\* any other kind gives Named(name); a decoded Type is a chain of wrappers that
\* ends in a Named leaf; a wrapper without (or with a null) ofType and another
\* kind without (or with a null) name are missing-field errors, also when the
\* reference that lacks it is nested in an `ofType`.
C6_TypeRefMirrorsChain ==
    level = "TypeRef" =>
        /\ pc = "failed" =>
             /\ seen[OF_TYPE_ALIAS] # <<>>
             /\ Last(seen[OF_TYPE_ALIAS]) \in BadRefs
             /\ result.err = "missing_field"
        /\ (pc # "loop" /\ result.ok) => IsNamedChain(result.val)
        /\ (pc = "returned" /\ seen[KIND_ALIAS] # <<>>) =>
             CASE Last(seen[KIND_ALIAS]).v = "LIST" ->
                    IF ValueSeen(OF_TYPE_ALIAS) = None
                    THEN result = Err("missing_field", OF_TYPE_ALIAS)
                    ELSE result
                           = Ok(ListType(ExpectedType(ValueSeen(OF_TYPE_ALIAS)[1])))
               [] Last(seen[KIND_ALIAS]).v = "NON_NULL" ->
                    IF ValueSeen(OF_TYPE_ALIAS) = None
                    THEN result = Err("missing_field", OF_TYPE_ALIAS)
                    ELSE result
                           = Ok(NonNullType(ExpectedType(ValueSeen(OF_TYPE_ALIAS)[1])))
               [] OTHER ->
                    IF ValueSeen(NAME_ALIAS) = None
                    THEN result = Err("missing_field", NAME_ALIAS)
                    ELSE result = Ok(NamedType(ValueSeen(NAME_ALIAS)[1].v))

\* NON_NULL of LIST of NON_NULL of SCALAR "String" has been decoded.
C6_Witness ==
    /\ level = "TypeRef"
    /\ pc = "returned"
    /\ seen[KIND_ALIAS] = <<JStr("NON_NULL")>>
    /\ seen[OF_TYPE_ALIAS] = <<RefListNonNullString>>
    /\ result = Ok(NonNullType(ListType(NonNullType(NamedType("String")))))

RootField(k) ==
    CASE k = QUERY_TYPE_ALIAS -> "query"
      [] k = MUTATION_TYPE_ALIAS -> "mutation"
      [] k = SUBSCRIPTION_TYPE_ALIAS -> "subscription"

SchemaSeen == Last(result.val.definitions).val

\* C7: the value of a root key gives an absent root when it is null and the
\* name when it is an object with a `name`; an object without `name` fails
\* with missing-field("name") and any other value with a type mismatch; a
\* null or a named object, read once, never makes the decoding fail.
C7_RootNameExtraction ==
    level = "Document" =>
      /\ (pc = "failed" /\ seen[TYPES_ALIAS] = <<>>) =>
            \E k \in RootKeys :
                /\ seen[k] # <<>>
                /\ \/ Len(seen[k]) >= 2
                   \/ seen[k][1].t \notin {"null", "obj"}
                   \/ seen[k][1].t = "obj" /\ MapGet(seen[k][1].v, NAME_ALIAS) = <<>>
      /\ \A k \in RootKeys :
            seen[k] # <<>> =>
                CASE seen[k][1].t = "null" ->
                       (pc = "returned" /\ Len(seen[k]) = 1) =>
                           result.ok /\ SchemaSeen[RootField(k)] = None
                  [] seen[k][1].t = "obj" /\ MapGet(seen[k][1].v, NAME_ALIAS) # <<>> ->
                       (pc = "returned" /\ Len(seen[k]) = 1) =>
                           /\ result.ok
                           /\ SchemaSeen[RootField(k)]
                                  = Some(MapGet(seen[k][1].v, NAME_ALIAS)[1].v)
                  [] seen[k][1].t = "obj" ->
                       pc = "failed" /\ result = Err("missing_field", NAME_ALIAS)
                  [] OTHER ->
                       pc = "failed" /\ result.err = "invalid_type"

\* A schema with a named query root and null mutation and subscription roots
\* has been decoded.
C7_Witness ==
    /\ level = "Document"
    /\ pc = "returned"
    /\ seen[QUERY_TYPE_ALIAS] = <<NamedRoot>>
    /\ seen[MUTATION_TYPE_ALIAS] = <<JNull>>
    /\ seen[SUBSCRIPTION_TYPE_ALIAS] = <<JNull>>
    /\ SchemaSeen = [query |-> Some("Query"), mutation |-> None,
                     subscription |-> None]

C10_NamesNonEmpty ==
    (level = "Document" /\ pc = "returned" /\ result.ok) =>
        \A i \in 1..Len(TypesSeen) : result.val.definitions[i].val.name # ""

\* The outcome with the name replaced by n.
Renamed(r, n) == IF r.ok THEN Ok([r.val EXCEPT !.name = n]) ELSE r

\* C10 as amended: a type definition carries the `name` string of its type
\* object as given, the empty string included; the name has to be there, and
\* which string it is plays no part in whether the object decodes.
C10_NamesAsGiven ==
    /\ (level = "TypeDefinition" /\ pc # "loop" /\ seen[NAME_ALIAS] # <<>>) =>
           result = Renamed(deserialize_type_definition(
                                ObjectOf([seen EXCEPT ![NAME_ALIAS] = <<JStr("A")>>],
                                         {})),
                            Last(seen[NAME_ALIAS]).v)
    /\ (level = "Document" /\ pc = "returned" /\ result.ok) =>
           \A i \in 1..Len(TypesSeen) :
               result.val.definitions[i].val.name = ElemName(TypesSeen[i])

\* A Document holding a type definition with the empty name has been returned.
C10_Witness ==
    /\ level = "Document"
    /\ pc = "returned"
    /\ seen[TYPES_ALIAS] = <<JArr(<<ScalarObj("")>>)>>
    /\ result.ok
    /\ result.val.definitions[1].def = "TypeDefinition"
    /\ result.val.definitions[1].val.name = ""

\* The structural keys supplied with null only.
NullKeys ==
    {k \in StructuralKeys :
        seen[k] # <<>> /\ \A i \in 1..Len(seen[k]) : seen[k][i].t = "null"}

\* The sequence of a type definition that a structural key populates.
SequenceOf(td, k) ==
    CASE k = FIELDS_ALIAS -> td.fields
      [] k = INPUT_FIELDS_ALIAS -> td.fields
      [] k = INTERFACES_ALIAS -> td.implements_interfaces
      [] k = ENUM_VALUES_ALIAS -> td.values
      [] k = POSSIBLE_TYPES_ALIAS -> td.types

\* C11: in a type object a structural key whose value is null counts as
\* absent: the outcome is that of the same object without the key, a null
\* under a forbidden key is no error (only a non-null array is), and a null
\* under a permitted key leaves the sequence of the result empty.
C11_NullAsAbsent ==
    level = "TypeDefinition" =>
        /\ (pc # "loop" /\ NullKeys # {}) =>
               result = Visit(level, ObjectSeen(NullKeys))
        /\ TypeObjectRead =>
             (result.ok <=> ArrayKeys \cap ForbiddenKeys(KindSeen) = {})
        /\ (TypeObjectRead /\ result.ok) =>
             \A k \in NullKeys \cap PermittedKeys(KindSeen) :
                 SequenceOf(result.val, k) = <<>>

\* An OBJECT with `fields: null` (permitted) and `possibleTypes: null`
\* (forbidden) has been decoded, its fields empty.
C11_Witness ==
    /\ TypeObjectRead
    /\ KindSeen = "OBJECT"
    /\ seen[FIELDS_ALIAS] = <<JNull>>
    /\ seen[POSSIBLE_TYPES_ALIAS] = <<JNull>>
    /\ result.ok
    /\ result.val.tag = "Object"
    /\ result.val.fields = <<>>

NamedKeys == {INTERFACES_ALIAS, POSSIBLE_TYPES_ALIAS}

\* The arrays of the inputs with an entry of kind LIST or NON_NULL.
WrappedArrs == {WrappedNamesArr, NonNullNamesArr}

\* C12: every entry of an `interfaces` or `possibleTypes` array goes through
\* the type-reference decoder and has to come out Named: an array with an
\* entry of kind LIST or NON_NULL (its ofType chain valid) fails the whole
\* type object with the custom error, whatever the kind; on success the names
\* of the result are the names of the entries, in the input's order.
C12_NamedEntriesOnly ==
    level = "TypeDefinition" =>
        \A k \in NamedKeys :
            /\ (seen[k] # <<>> /\ Last(seen[k]) \in WrappedArrs) =>
                   /\ \E i \in 1..Len(Last(seen[k]).v) :
                          /\ deserialize_type_ref(Last(seen[k]).v[i]).ok
                          /\ deserialize_type_ref(Last(seen[k]).v[i]).val.tag
                                 # "NamedType"
                   /\ pc = "failed"
                   /\ result = Err("custom", "Expected NamedType")
            /\ (pc = "returned" /\ k \in ArrayKeys) =>
                   \A i \in 1..Len(Last(seen[k]).v) :
                       deserialize_type_ref(Last(seen[k]).v[i])
                           = Ok(NamedType(ElemName(Last(seen[k]).v[i])))
            /\ (TypeObjectRead /\ result.ok /\ k \in ArrayKeys
                    /\ k \in PermittedKeys(KindSeen)) =>
                   SequenceOf(result.val, k) = ElemNames(Last(seen[k]))

\* A UNION whose possibleTypes holds a NON_NULL entry has failed with the
\* custom error.
C12_Witness ==
    /\ level = "TypeDefinition"
    /\ seen[KIND_ALIAS] = <<JStr("UNION")>>
    /\ seen[NAME_ALIAS] # <<>>
    /\ seen[POSSIBLE_TYPES_ALIAS] = <<NonNullNamesArr>>
    /\ pc = "failed"
    /\ result = Err("custom", "Expected NamedType")

\* The values read, cut down to the last occurrence of every key other than
\* the root keys.
LastOnly(s) ==
    [k \in DOMAIN s |->
        IF k \in RootKeys \/ s[k] = <<>> THEN s[k] ELSE <<Last(s[k])>>]

\* A key other than the root keys has been read twice or more.
Repeated == \E k \in DOMAIN seen \ RootKeys : Len(seen[k]) >= 2

\* The keys, other than the root keys, whose last value read does not decode
\* and that may come again with a null value.
LaterNullKeys ==
    {k \in RepeatKeys(level) \ RootKeys :
        /\ seen[k] # <<>>
        /\ JNull \in ValuesOf(level, k)
        /\ ~VisitKey(level, VisitNew(level), k, Last(seen[k])).ok}

\* The values read, followed by one more occurrence of k, with null.
WithLaterNull(k) == [seen EXCEPT ![k] = Append(@, JNull)]

====
